---- MODULE Spec2Model ----
(***************************************************************************)
(* Model of src/lang.py: the batch translator of an ARB string table.      *)
(*                                                                         *)
(* The main thread loads the source table, creates the output directory,   *)
(* then starts one thread per catalog locale (other than "en"), keeping    *)
(* fewer than THREADS alive by polling is_alive(), joins them all and      *)
(* prints the final line.  Each thread runs translate_language(lang_code). *)
(*                                                                         *)
(* Texts are sequences of one-character tokens over Chars: "w" stands for  *)
(* any character of the regex class \w, " " for any other character that   *)
(* is not a brace.  Keys are sequences of tokens whose "@" tokens are the  *)
(* literal character "@".  A dict is a sequence of [k, v] records with     *)
(* unique keys, in insertion order, as a Python dict keeps it.             *)
(***************************************************************************)
EXTENDS Integers, Sequences, FiniteSets, TLC

\* src/lang.py:9 is THREADS = 6; the model runs the same loop with a smaller
\* pool and a smaller catalog so that the pool fills and drains.
THREADS == 2

\* src/lang.py:14-33, the catalog's keys in declared order, cut down to one
\* locale before the source locale, one after it and the alias entry of it.
languages == <<"hi", "en", "es", "es-MX">>

\* the keys of the catalog
Catalog == {languages[i] : i \in 1..Len(languages)}

NoThread == "-"

Targets == {languages[i] : i \in {j \in 1..Len(languages) : languages[j] # "en"}}

----------------------------------------------------------------------------
\* Keys and values of the source table

LocaleKey == <<"@", "@", "locale">>
GreetKey == <<"greet">>
GreetMetaKey == <<"@", "greet">>
ByeKey == <<"bye">>

MetaValue == <<"placeholders">>

Hello_name == <<"w", " ", "{", "w", "}">>
Goodbye == <<"w">>

\* the table of the spec's example, in its key order
ExampleTable ==
  << [k |-> GreetKey, v |-> Hello_name],
     [k |-> GreetMetaKey, v |-> MetaValue],
     [k |-> ByeKey, v |-> Goodbye],
     [k |-> LocaleKey, v |-> <<"en">>] >>

\* a table with no "@@locale" key and no metadata
UntaggedTable ==
  << [k |-> ByeKey, v |-> Goodbye],
     [k |-> GreetKey, v |-> <<"{", "w", "w", "}">>] >>

\* braces that are not placeholders, locale tag first
BracesTable ==
  << [k |-> LocaleKey, v |-> <<"en">>],
     [k |-> GreetKey, v |-> <<"{", "}", "w">>],
     [k |-> ByeKey, v |-> <<"{", "w", " ", "}">>] >>

InputFiles ==
  { [status |-> "ok", data |-> ExampleTable],
    [status |-> "ok", data |-> UntaggedTable],
    [status |-> "ok", data |-> BracesTable],
    [status |-> "missing", data |-> <<>>],
    [status |-> "malformed", data |-> <<>>] }

OutputDirs == {"absent", "uncreatable", "writable", "unwritable"}

----------------------------------------------------------------------------
\* Python helpers

\* str.startswith("@")
startswith_at(key) == Len(key) >= 1 /\ key[1] = "@"

\* dict keys
Keys(d) == {d[i].k : i \in 1..Len(d)}

\* d[key]
Get(d, key) == d[CHOOSE i \in 1..Len(d) : d[i].k = key].v

\* d[key] = value: an existing key keeps its position, a new key is appended
DictSet(d, key, value) ==
  IF key \in Keys(d)
    THEN [i \in 1..Len(d) |-> IF d[i].k = key THEN [k |-> key, v |-> value] ELSE d[i]]
    ELSE Append(d, [k |-> key, v |-> value])

IsWordChar(c) == c = "w"

\* the end of the longest run of \w starting at position i
RECURSIVE WordEnd(_, _)
WordEnd(s, i) ==
  IF i <= Len(s) /\ IsWordChar(s[i]) THEN WordEnd(s, i + 1) ELSE i

\* {\w+} matched at position i
MatchAt(s, i) ==
  /\ i <= Len(s)
  /\ s[i] = "{"
  /\ LET j == WordEnd(s, i + 1)
     IN  j > i + 1 /\ j <= Len(s) /\ s[j] = "}"

RECURSIVE SearchFrom(_, _)
SearchFrom(s, i) ==
  IF i > Len(s) THEN FALSE
  ELSE IF MatchAt(s, i) THEN TRUE
  ELSE SearchFrom(s, i + 1)

\* re.match in place of re.search: only a placeholder at the start is seen
placeholder_pattern_match(value) == MatchAt(value, 1)

\* placeholder_pattern.search(value) is not None
placeholder_pattern_search(value) == SearchFrom(value, 1)

\* GoogleTranslator(source='en', target=lang_code).translate(value), when it
\* returns: the backend is a black box, its result is a text that names the
\* target and the text it was given
Translate(value, lang_code) == <<"tr", lang_code>> \o value

\* the keys are collected in reverse order
RECURSIVE FilterKeysReversed(_)
FilterKeysReversed(d) ==
  IF d = <<>> THEN <<>>
  ELSE IF (~ startswith_at(Head(d).k)) /\ Head(d).k # LocaleKey
         THEN FilterKeysReversed(Tail(d)) \o <<Head(d).k>>
         ELSE FilterKeysReversed(Tail(d))

\* the list comprehension of line 42
RECURSIVE FilterKeys(_)
FilterKeys(d) ==
  IF d = <<>> THEN <<>>
  ELSE IF (~ startswith_at(Head(d).k)) /\ Head(d).k # LocaleKey
         THEN <<Head(d).k>> \o FilterKeys(Tail(d))
         ELSE FilterKeys(Tail(d))

\* the loop of lines 62-64 over english_data.items(), from entry i on
RECURSIVE CopyMeta(_, _, _)
CopyMeta(doc, d, i) ==
  IF i > Len(d) THEN doc
  ELSE IF startswith_at(d[i].k)
         THEN CopyMeta(DictSet(doc, d[i].k, d[i].v), d, i + 1)
         ELSE CopyMeta(doc, d, i + 1)

----------------------------------------------------------------------------
VARIABLES
  inputFile,        \* what is at INPUT_FILE
  outputDir,        \* the state of OUTPUT_DIR
  english_data,     \* the loaded source table
  keys_to_translate,
  mpc,              \* the main thread's position
  li,               \* index of the for loop of line 73 in languages
  threads,          \* the list of started threads, by their lang_code
  ji,               \* index of the join loop of line 82
  tstate,           \* each thread's position
  ki,               \* each thread's index in keys_to_translate
  translated_data,  \* each thread's document
  lock,             \* the holder of lock
  files,            \* the destination files app_<lang_code>.arb
  log,              \* stdout: what was written since the last newline
  calls,            \* keys for which each thread has called the backend
  failed,           \* keys for which each thread's backend call raised
  ioFailed,         \* threads whose write raised an OSError
  exit_status       \* the process' exit status, -1 while it runs

vars == <<inputFile, outputDir, english_data, keys_to_translate, mpc, li,
          threads, ji, tstate, ki, translated_data, lock, files, log, calls,
          failed, ioFailed, exit_status>>

loaded == <<english_data, keys_to_translate>>

AbsentFile == [exists |-> FALSE, content |-> <<>>, complete |-> FALSE]

\* the name is made of the part of the code before "-": an alias entry gets
\* the file of its base locale
output_file_base(lang_code) ==
  <<"langfiles/", "app_", IF lang_code = "es-MX" THEN "es" ELSE lang_code, ".arb">>

\* line 66: os.path.join(OUTPUT_DIR, f"app_{lang_code}.arb")
output_file(lang_code) == <<"langfiles/", "app_", lang_code, ".arb">>

\* the destinations of the catalog's entries
Paths == {output_file(l) : l \in Catalog}

Init ==
  /\ inputFile \in InputFiles
  /\ outputDir \in OutputDirs
  /\ english_data = <<>>
  /\ keys_to_translate = <<>>
  /\ mpc = "load"
  /\ li = 1
  /\ threads = <<>>
  /\ ji = 1
  /\ tstate = [l \in Catalog |-> "new"]
  /\ ki = [l \in Catalog |-> 1]
  /\ translated_data = [l \in Catalog |-> <<>>]
  /\ lock = NoThread
  /\ files = [p \in Paths |-> AbsentFile]
  /\ log = <<>>
  /\ calls = [l \in Catalog |-> <<>>]
  /\ failed = [l \in Catalog |-> {}]
  /\ ioFailed = {}
  /\ exit_status = -1

is_alive(l) == tstate[l] \notin {"new", "finished"}

\* print(x) is sys.stdout.write(x) followed by sys.stdout.write("\n")
Line(l, text) == [by |-> l, text |-> text]
\* the newline ends the line, whoever wrote the texts on it
WriteNewline(line) == <<>>

----------------------------------------------------------------------------
\* The main thread

workerVars == <<tstate, ki, translated_data, lock, files, calls, failed, ioFailed>>

\* lines 36-37: open(INPUT_FILE) and json.load; either may raise
LoadSource ==
  /\ mpc = "load"
  /\ IF inputFile.status = "ok"
       THEN /\ english_data' = inputFile.data
            /\ mpc' = "mkdir"
            /\ UNCHANGED exit_status
       ELSE /\ mpc' = "aborted"
            /\ exit_status' = 1
            /\ UNCHANGED english_data
  /\ UNCHANGED <<inputFile, outputDir, keys_to_translate, li, threads, ji, log>>
  /\ UNCHANGED workerVars

\* lines 39-43: os.makedirs when the directory does not exist, then the
\* list of keys to translate and the lock
MakeOutputDir ==
  /\ mpc = "mkdir"
  /\ IF outputDir = "uncreatable"
       THEN /\ mpc' = "aborted"
            /\ exit_status' = 1
            /\ UNCHANGED <<outputDir, keys_to_translate>>
       ELSE /\ outputDir' = IF outputDir = "absent" THEN "writable" ELSE outputDir
            /\ keys_to_translate' = FilterKeys(english_data)
            /\ mpc' = "for"
            /\ UNCHANGED exit_status
  /\ UNCHANGED <<inputFile, english_data, li, threads, ji, log>>
  /\ UNCHANGED workerVars

\* the source locale is not skipped
ForLangNoSkip ==
  /\ mpc = "for"
  /\ IF li > Len(languages)
       THEN /\ mpc' = "join"
            /\ ji' = 1
            /\ UNCHANGED li
       ELSE /\ mpc' = "while"
            /\ UNCHANGED <<li, ji>>
  /\ UNCHANGED <<inputFile, outputDir, threads, log, exit_status>>
  /\ UNCHANGED loaded
  /\ UNCHANGED workerVars

\* lines 73-75: the next lang_code of the catalog, skipping "en"
ForLang ==
  /\ mpc = "for"
  /\ IF li > Len(languages)
       THEN /\ mpc' = "join"
            /\ ji' = 1
            /\ UNCHANGED li
       ELSE IF languages[li] = "en"
         THEN /\ li' = li + 1
              /\ UNCHANGED <<mpc, ji>>
         ELSE /\ mpc' = "while"
              /\ UNCHANGED <<li, ji>>
  /\ UNCHANGED <<inputFile, outputDir, threads, log, exit_status>>
  /\ UNCHANGED loaded
  /\ UNCHANGED workerVars

\* off by one the other way: the pool is full one thread early
PoolFullOneLess == Cardinality({i \in 1..Len(threads) : is_alive(threads[i])}) >= THREADS - 1

\* off by one: the pool is let grow to THREADS + 1
PoolFullOffByOne == Cardinality({i \in 1..Len(threads) : is_alive(threads[i])}) > THREADS

\* the condition of the while of line 76
PoolFull == Cardinality({i \in 1..Len(threads) : is_alive(threads[i])}) >= THREADS

\* lines 76-77: one evaluation of the busy wait
WhilePoll ==
  /\ mpc = "while"
  /\ IF PoolFull THEN UNCHANGED mpc ELSE mpc' = "start"
  /\ UNCHANGED <<inputFile, outputDir, li, threads, ji, log, exit_status>>
  /\ UNCHANGED loaded
  /\ UNCHANGED workerVars

\* the thread started is the one of the catalog entry counted from the end
StartThreadReversed ==
  /\ mpc = "start"
  /\ tstate' = [tstate EXCEPT ![languages[Len(languages) + 1 - li]] = "started"]
  /\ mpc' = "append"
  /\ UNCHANGED <<inputFile, outputDir, li, threads, ji, log, exit_status>>
  /\ UNCHANGED loaded
  /\ UNCHANGED <<ki, translated_data, lock, files, calls, failed, ioFailed>>

\* lines 78-79: Thread(...) and t.start()
StartThread ==
  /\ mpc = "start"
  /\ tstate' = [tstate EXCEPT ![languages[li]] = "started"]
  /\ mpc' = "append"
  /\ UNCHANGED <<inputFile, outputDir, li, threads, ji, log, exit_status>>
  /\ UNCHANGED loaded
  /\ UNCHANGED <<ki, translated_data, lock, files, calls, failed, ioFailed>>

\* line 80: threads.append(t)
AppendThread ==
  /\ mpc = "append"
  /\ threads' = Append(threads, languages[li])
  /\ li' = li + 1
  /\ mpc' = "for"
  /\ UNCHANGED <<inputFile, outputDir, ji, log, exit_status>>
  /\ UNCHANGED loaded
  /\ UNCHANGED workerVars

\* the join loop goes over the threads without waiting for them
JoinNoWait ==
  /\ mpc = "join"
  /\ IF ji > Len(threads)
       THEN /\ mpc' = "print_done"
            /\ UNCHANGED ji
       ELSE /\ ji' = ji + 1
            /\ UNCHANGED mpc
  /\ UNCHANGED <<inputFile, outputDir, li, threads, log, exit_status>>
  /\ UNCHANGED loaded
  /\ UNCHANGED workerVars

\* lines 82-83: t.join() returns once the thread has finished
JoinThread ==
  /\ mpc = "join"
  /\ IF ji > Len(threads)
       THEN /\ mpc' = "print_done"
            /\ UNCHANGED ji
       ELSE /\ ~ is_alive(threads[ji])
            /\ ji' = ji + 1
            /\ UNCHANGED mpc
  /\ UNCHANGED <<inputFile, outputDir, li, threads, log, exit_status>>
  /\ UNCHANGED loaded
  /\ UNCHANGED workerVars

\* line 85, the text of the final line
PrintDone ==
  /\ mpc = "print_done"
  /\ log' = Append(log, Line("main", "All translations done"))
  /\ mpc' = "print_done_nl"
  /\ UNCHANGED <<inputFile, outputDir, li, threads, ji, exit_status>>
  /\ UNCHANGED loaded
  /\ UNCHANGED workerVars

\* line 85, its newline; the script ends and the process exits with 0
PrintDoneNl ==
  /\ mpc = "print_done_nl"
  /\ log' = WriteNewline(log)
  /\ mpc' = "end"
  /\ exit_status' = 0
  /\ UNCHANGED <<inputFile, outputDir, li, threads, ji>>
  /\ UNCHANGED loaded
  /\ UNCHANGED workerVars

----------------------------------------------------------------------------
\* translate_language(lang_code), run by the thread of lang_code

fixed == <<inputFile, outputDir, english_data, keys_to_translate>>
mainPos == <<mpc, li, threads, ji, exit_status>>

\* the document starts empty: the locale tag is forgotten
BeginNoTag(l) ==
  /\ tstate[l] = "started"
  /\ translated_data' = [translated_data EXCEPT ![l] = <<>>]
  /\ log' = Append(log, Line(l, "Translating to"))
  /\ tstate' = [tstate EXCEPT ![l] = "log_translating_nl"]
  /\ UNCHANGED <<ki, lock, files, calls, failed, ioFailed>>
  /\ UNCHANGED fixed
  /\ UNCHANGED mainPos

\* lines 46-47: the document starts as {"@@locale": lang_code}; the text of
\* the "Translating to" line is written
Begin(l) ==
  /\ tstate[l] = "started"
  /\ translated_data' = [translated_data EXCEPT ![l] = <<[k |-> LocaleKey, v |-> <<l>>]>>]
  /\ log' = Append(log, Line(l, "Translating to"))
  /\ tstate' = [tstate EXCEPT ![l] = "log_translating_nl"]
  /\ UNCHANGED <<ki, lock, files, calls, failed, ioFailed>>
  /\ UNCHANGED fixed
  /\ UNCHANGED mainPos

\* line 47, the newline of the line
BeginNl(l) ==
  /\ tstate[l] = "log_translating_nl"
  /\ log' = WriteNewline(log)
  /\ tstate' = [tstate EXCEPT ![l] = "for_key"]
  /\ UNCHANGED <<ki, translated_data, lock, files, calls, failed, ioFailed>>
  /\ UNCHANGED fixed
  /\ UNCHANGED mainPos

\* lines 49-53 and 59: the next key; a value with a placeholder is stored as
\* it is, any other value goes to the backend (line 55)
ForKey(l) ==
  /\ tstate[l] = "for_key"
  /\ ki[l] <= Len(keys_to_translate)
  /\ LET key == keys_to_translate[ki[l]]
         value == Get(english_data, key)
     IN  IF placeholder_pattern_search(value)
           THEN /\ translated_data' = [translated_data EXCEPT ![l] = DictSet(@, key, value)]
                /\ ki' = [ki EXCEPT ![l] = @ + 1]
                /\ UNCHANGED <<tstate, calls>>
           ELSE /\ calls' = [calls EXCEPT ![l] = Append(@, key)]
                /\ tstate' = [tstate EXCEPT ![l] = "translate"]
                /\ UNCHANGED <<translated_data, ki>>
  /\ UNCHANGED <<lock, files, log, failed, ioFailed>>
  /\ UNCHANGED fixed
  /\ UNCHANGED mainPos

\* the body uses the module's loop variable lang_code of line 73 instead of
\* its own parameter
TranslateReturnGlobal(l) ==
  /\ tstate[l] = "translate"
  /\ LET key == keys_to_translate[ki[l]]
         value == Get(english_data, key)
         lang_code == languages[IF li > Len(languages) THEN Len(languages) ELSE li]
     IN  translated_data' = [translated_data EXCEPT ![l] = DictSet(@, key, Translate(value, lang_code))]
  /\ ki' = [ki EXCEPT ![l] = @ + 1]
  /\ tstate' = [tstate EXCEPT ![l] = "for_key"]
  /\ UNCHANGED <<lock, files, log, calls, failed, ioFailed>>
  /\ UNCHANGED fixed
  /\ UNCHANGED mainPos

\* lines 55 and 59: the backend returns and its text is stored
TranslateReturn(l) ==
  /\ tstate[l] = "translate"
  /\ LET key == keys_to_translate[ki[l]]
         value == Get(english_data, key)
     IN  translated_data' = [translated_data EXCEPT ![l] = DictSet(@, key, Translate(value, l))]
  /\ ki' = [ki EXCEPT ![l] = @ + 1]
  /\ tstate' = [tstate EXCEPT ![l] = "for_key"]
  /\ UNCHANGED <<lock, files, log, calls, failed, ioFailed>>
  /\ UNCHANGED fixed
  /\ UNCHANGED mainPos

\* lines 56-57: the backend raises; the text of the "Error" line is written
TranslateRaise(l) ==
  /\ tstate[l] = "translate"
  /\ failed' = [failed EXCEPT ![l] = @ \cup {keys_to_translate[ki[l]]}]
  /\ log' = Append(log, Line(l, "Error"))
  /\ tstate' = [tstate EXCEPT ![l] = "log_error_nl"]
  /\ UNCHANGED <<ki, translated_data, lock, files, calls, ioFailed>>
  /\ UNCHANGED fixed
  /\ UNCHANGED mainPos

\* the except branch tries the same key again
ErrorNlRetry(l) ==
  /\ tstate[l] = "log_error_nl"
  /\ log' = WriteNewline(log)
  /\ tstate' = [tstate EXCEPT ![l] = "for_key"]
  /\ UNCHANGED <<ki, translated_data, lock, files, calls, failed, ioFailed>>
  /\ UNCHANGED fixed
  /\ UNCHANGED mainPos

\* the except branch goes on to the next key without storing anything
ErrorNlSkip(l) ==
  /\ tstate[l] = "log_error_nl"
  /\ log' = WriteNewline(log)
  /\ ki' = [ki EXCEPT ![l] = @ + 1]
  /\ tstate' = [tstate EXCEPT ![l] = "for_key"]
  /\ UNCHANGED <<translated_data, lock, files, calls, failed, ioFailed>>
  /\ UNCHANGED fixed
  /\ UNCHANGED mainPos

\* lines 57-59: the newline of the "Error" line, then the source value is
\* stored
ErrorNl(l) ==
  /\ tstate[l] = "log_error_nl"
  /\ log' = WriteNewline(log)
  /\ LET key == keys_to_translate[ki[l]]
         value == Get(english_data, key)
     IN  translated_data' = [translated_data EXCEPT ![l] = DictSet(@, key, value)]
  /\ ki' = [ki EXCEPT ![l] = @ + 1]
  /\ tstate' = [tstate EXCEPT ![l] = "for_key"]
  /\ UNCHANGED <<lock, files, calls, failed, ioFailed>>
  /\ UNCHANGED fixed
  /\ UNCHANGED mainPos

\* lines 62-66: after the last key, every entry of english_data whose key
\* starts with "@" is copied
CopyMetadata(l) ==
  /\ tstate[l] = "for_key"
  /\ ki[l] > Len(keys_to_translate)
  /\ translated_data' = [translated_data EXCEPT ![l] = CopyMeta(@, english_data, 1)]
  /\ tstate' = [tstate EXCEPT ![l] = "acquire"]
  /\ UNCHANGED <<ki, lock, files, log, calls, failed, ioFailed>>
  /\ UNCHANGED fixed
  /\ UNCHANGED mainPos

\* the file is written without waiting for the lock
AcquireNoWait(l) ==
  /\ tstate[l] = "acquire"
  /\ lock' = l
  /\ tstate' = [tstate EXCEPT ![l] = "open"]
  /\ UNCHANGED <<ki, translated_data, files, log, calls, failed, ioFailed>>
  /\ UNCHANGED fixed
  /\ UNCHANGED mainPos

\* line 67: with lock
Acquire(l) ==
  /\ tstate[l] = "acquire"
  /\ lock = NoThread
  /\ lock' = l
  /\ tstate' = [tstate EXCEPT ![l] = "open"]
  /\ UNCHANGED <<ki, translated_data, files, log, calls, failed, ioFailed>>
  /\ UNCHANGED fixed
  /\ UNCHANGED mainPos

\* line 68: open(output_file, "w") creates or truncates the file
OpenFile(l) ==
  /\ tstate[l] = "open"
  /\ outputDir = "writable"
  /\ files' = [files EXCEPT ![output_file(l)] = [exists |-> TRUE, content |-> <<>>, complete |-> FALSE]]
  /\ tstate' = [tstate EXCEPT ![l] = "dump"]
  /\ UNCHANGED <<ki, translated_data, lock, log, calls, failed, ioFailed>>
  /\ UNCHANGED fixed
  /\ UNCHANGED mainPos

\* line 68: open raises in a directory that cannot be written; the with of
\* line 67 releases the lock and the exception leaves translate_language
OpenRaise(l) ==
  /\ tstate[l] = "open"
  /\ outputDir = "unwritable"
  /\ lock' = NoThread
  /\ ioFailed' = ioFailed \cup {l}
  /\ tstate' = [tstate EXCEPT ![l] = "raise"]
  /\ UNCHANGED <<ki, translated_data, files, log, calls, failed>>
  /\ UNCHANGED fixed
  /\ UNCHANGED mainPos

\* line 69: json.dump writes the document piece by piece; the model's piece
\* is one entry
DumpEntry(l) ==
  /\ tstate[l] = "dump"
  /\ Len(files[output_file(l)].content) < Len(translated_data[l])
  /\ files' = [files EXCEPT ![output_file(l)].content = Append(@, translated_data[l][Len(@) + 1])]
  /\ UNCHANGED <<tstate, ki, translated_data, lock, log, calls, failed, ioFailed>>
  /\ UNCHANGED fixed
  /\ UNCHANGED mainPos

\* the lock is taken and released by hand, and the exception skips the release
DumpRaiseKeepLock(l) ==
  /\ tstate[l] = "dump"
  /\ ioFailed' = ioFailed \cup {l}
  /\ tstate' = [tstate EXCEPT ![l] = "raise"]
  /\ UNCHANGED <<ki, translated_data, lock, files, log, calls, failed>>
  /\ UNCHANGED fixed
  /\ UNCHANGED mainPos

\* lines 68-69: a write or the closing flush raises (disk full, ...); what
\* was written stays, the lock is released, the exception leaves the function
DumpRaise(l) ==
  /\ tstate[l] = "dump"
  /\ lock' = NoThread
  /\ ioFailed' = ioFailed \cup {l}
  /\ tstate' = [tstate EXCEPT ![l] = "raise"]
  /\ UNCHANGED <<ki, translated_data, files, log, calls, failed>>
  /\ UNCHANGED fixed
  /\ UNCHANGED mainPos

\* line 68: leaving the inner with closes the file, the document is whole
CloseFile(l) ==
  /\ tstate[l] = "dump"
  /\ Len(files[output_file(l)].content) = Len(translated_data[l])
  /\ files' = [files EXCEPT ![output_file(l)].complete = TRUE]
  /\ tstate' = [tstate EXCEPT ![l] = "log_created"]
  /\ UNCHANGED <<ki, translated_data, lock, log, calls, failed, ioFailed>>
  /\ UNCHANGED fixed
  /\ UNCHANGED mainPos

\* line 70, the text of the "Created" line
Created(l) ==
  /\ tstate[l] = "log_created"
  /\ log' = Append(log, Line(l, "Created"))
  /\ tstate' = [tstate EXCEPT ![l] = "log_created_nl"]
  /\ UNCHANGED <<ki, translated_data, lock, files, calls, failed, ioFailed>>
  /\ UNCHANGED fixed
  /\ UNCHANGED mainPos

\* line 70, its newline
CreatedNl(l) ==
  /\ tstate[l] = "log_created_nl"
  /\ log' = WriteNewline(log)
  /\ tstate' = [tstate EXCEPT ![l] = "release"]
  /\ UNCHANGED <<ki, translated_data, lock, files, calls, failed, ioFailed>>
  /\ UNCHANGED fixed
  /\ UNCHANGED mainPos

\* the with block is left without the lock being released
ReleaseForget(l) ==
  /\ tstate[l] = "release"
  /\ tstate' = [tstate EXCEPT ![l] = "return"]
  /\ UNCHANGED <<ki, translated_data, lock, files, log, calls, failed, ioFailed>>
  /\ UNCHANGED fixed
  /\ UNCHANGED mainPos

\* line 67: leaving the with releases the lock
Release(l) ==
  /\ tstate[l] = "release"
  /\ lock' = NoThread
  /\ tstate' = [tstate EXCEPT ![l] = "return"]
  /\ UNCHANGED <<ki, translated_data, files, log, calls, failed, ioFailed>>
  /\ UNCHANGED fixed
  /\ UNCHANGED mainPos

\* the thread ends, after translate_language returned or raised; nothing
\* is passed to the main thread
ThreadEnd(l) ==
  /\ tstate[l] \in {"return", "raise"}
  /\ tstate' = [tstate EXCEPT ![l] = "finished"]
  /\ UNCHANGED <<ki, translated_data, lock, files, log, calls, failed, ioFailed>>
  /\ UNCHANGED fixed
  /\ UNCHANGED mainPos

----------------------------------------------------------------------------
Next ==
  \/ LoadSource
  \/ MakeOutputDir
  \/ ForLang
  \/ WhilePoll
  \/ StartThread
  \/ AppendThread
  \/ JoinThread
  \/ PrintDone
  \/ PrintDoneNl
  \/ \E l \in Catalog : Begin(l)
  \/ \E l \in Catalog : BeginNl(l)
  \/ \E l \in Catalog : ForKey(l)
  \/ \E l \in Catalog : TranslateReturn(l)
  \/ \E l \in Catalog : TranslateRaise(l)
  \/ \E l \in Catalog : ErrorNl(l)
  \/ \E l \in Catalog : CopyMetadata(l)
  \/ \E l \in Catalog : Acquire(l)
  \/ \E l \in Catalog : OpenFile(l)
  \/ \E l \in Catalog : OpenRaise(l)
  \/ \E l \in Catalog : DumpEntry(l)
  \/ \E l \in Catalog : DumpRaise(l)
  \/ \E l \in Catalog : CloseFile(l)
  \/ \E l \in Catalog : Created(l)
  \/ \E l \in Catalog : CreatedNl(l)
  \/ \E l \in Catalog : Release(l)
  \/ \E l \in Catalog : ThreadEnd(l)

Spec == Init /\ [][Next]_vars

----------------------------------------------------------------------------
\* translate_language on its own: the first thread of the run, over a source
\* table of one entry whose text is any text of at most MaxLen characters

MaxLen == 5

Chars == {"{", "}", "w", " "}

Texts == UNION {[1..n -> Chars] : n \in 0..MaxLen}

InitWorker ==
  /\ \E t \in Texts :
       inputFile = [status |-> "ok", data |-> <<[k |-> ByeKey, v |-> t]>>]
  /\ outputDir \in {"writable", "unwritable"}
  /\ english_data = inputFile.data
  /\ keys_to_translate = FilterKeys(english_data)
  /\ mpc = "append"
  /\ li = 1
  /\ threads = <<>>
  /\ ji = 1
  /\ tstate = [l \in Catalog |-> IF l = languages[1] THEN "started" ELSE "new"]
  /\ ki = [l \in Catalog |-> 1]
  /\ translated_data = [l \in Catalog |-> <<>>]
  /\ lock = NoThread
  /\ files = [p \in Paths |-> AbsentFile]
  /\ log = <<>>
  /\ calls = [l \in Catalog |-> <<>>]
  /\ failed = [l \in Catalog |-> {}]
  /\ ioFailed = {}
  /\ exit_status = -1

NextWorker ==
  \/ \E l \in Catalog : Begin(l)
  \/ \E l \in Catalog : BeginNl(l)
  \/ \E l \in Catalog : ForKey(l)
  \/ \E l \in Catalog : TranslateReturn(l)
  \/ \E l \in Catalog : TranslateRaise(l)
  \/ \E l \in Catalog : ErrorNl(l)
  \/ \E l \in Catalog : CopyMetadata(l)
  \/ \E l \in Catalog : Acquire(l)
  \/ \E l \in Catalog : OpenFile(l)
  \/ \E l \in Catalog : OpenRaise(l)
  \/ \E l \in Catalog : DumpEntry(l)
  \/ \E l \in Catalog : DumpRaise(l)
  \/ \E l \in Catalog : CloseFile(l)
  \/ \E l \in Catalog : Created(l)
  \/ \E l \in Catalog : CreatedNl(l)
  \/ \E l \in Catalog : Release(l)
  \/ \E l \in Catalog : ThreadEnd(l)

SpecWorker == InitWorker /\ [][NextWorker]_vars

----------------------------------------------------------------------------
\* The run under fair scheduling: the interpreter switches between the
\* threads, so the main thread and every started thread keep taking their
\* steps; BackendFairness is the assumption that a backend call returns or
\* raises.  The runs are those over one source table.

\* a table of one entry, to translate
ByeTable == <<[k |-> ByeKey, v |-> Goodbye]>>

InitFair ==
  /\ inputFile \in { [status |-> "ok", data |-> ByeTable],
                     [status |-> "missing", data |-> <<>>] }
  /\ outputDir \in {"absent", "unwritable"}
  /\ english_data = <<>>
  /\ keys_to_translate = <<>>
  /\ mpc = "load"
  /\ li = 1
  /\ threads = <<>>
  /\ ji = 1
  /\ tstate = [l \in Catalog |-> "new"]
  /\ ki = [l \in Catalog |-> 1]
  /\ translated_data = [l \in Catalog |-> <<>>]
  /\ lock = NoThread
  /\ files = [p \in Paths |-> AbsentFile]
  /\ log = <<>>
  /\ calls = [l \in Catalog |-> <<>>]
  /\ failed = [l \in Catalog |-> {}]
  /\ ioFailed = {}
  /\ exit_status = -1

\* the steps of the main thread
MainStep ==
  \/ LoadSource
  \/ MakeOutputDir
  \/ ForLang
  \/ WhilePoll
  \/ StartThread
  \/ AppendThread
  \/ JoinThread
  \/ PrintDone
  \/ PrintDoneNl

\* the steps of thread l that do not wait for the backend
ThreadStep(l) ==
  \/ Begin(l)
  \/ BeginNl(l)
  \/ ForKey(l)
  \/ ErrorNl(l)
  \/ CopyMetadata(l)
  \/ Acquire(l)
  \/ OpenFile(l)
  \/ OpenRaise(l)
  \/ DumpEntry(l)
  \/ DumpRaise(l)
  \/ CloseFile(l)
  \/ Created(l)
  \/ CreatedNl(l)
  \/ Release(l)
  \/ ThreadEnd(l)

\* the backend answers the call of thread l
BackendAnswer(l) == TranslateReturn(l) \/ TranslateRaise(l)

SchedulerFairness ==
  /\ WF_vars(MainStep)
  /\ \A l \in Catalog : WF_vars(ThreadStep(l))

BackendFairness == \A l \in Catalog : WF_vars(BackendAnswer(l))

SpecFair == InitFair /\ [][Next]_vars /\ SchedulerFairness /\ BackendFairness

\* the same run with a backend that may never answer a call
SpecHang == InitFair /\ [][Next]_vars /\ SchedulerFairness

----------------------------------------------------------------------------
\* The script run again and again over the same source table and the files
\* of the run before, with a backend that answers the same call the same
\* way and writes that do not fail

\* the backend's answer to translate(value) for target lang_code is an
\* error: it does not know the alias entry
BackendFails(value, lang_code) == lang_code = "es-MX"

InitDet ==
  /\ inputFile \in {f \in InputFiles : f.status = "ok"}
  /\ outputDir \in {"absent", "writable"}
  /\ english_data = <<>>
  /\ keys_to_translate = <<>>
  /\ mpc = "load"
  /\ li = 1
  /\ threads = <<>>
  /\ ji = 1
  /\ tstate = [l \in Catalog |-> "new"]
  /\ ki = [l \in Catalog |-> 1]
  /\ translated_data = [l \in Catalog |-> <<>>]
  /\ lock = NoThread
  /\ files = [p \in Paths |-> AbsentFile]
  /\ log = <<>>
  /\ calls = [l \in Catalog |-> <<>>]
  /\ failed = [l \in Catalog |-> {}]
  /\ ioFailed = {}
  /\ exit_status = -1

DetReturn(l) ==
  /\ tstate[l] = "translate"
  /\ ~ BackendFails(Get(english_data, keys_to_translate[ki[l]]), l)
  /\ TranslateReturn(l)

DetRaise(l) ==
  /\ tstate[l] = "translate"
  /\ BackendFails(Get(english_data, keys_to_translate[ki[l]]), l)
  /\ TranslateRaise(l)

\* the script is started again after it ended: a new process, the same
\* input file and the output directory as the run before left it
Rerun ==
  /\ mpc = "end"
  /\ english_data' = <<>>
  /\ keys_to_translate' = <<>>
  /\ mpc' = "load"
  /\ li' = 1
  /\ threads' = <<>>
  /\ ji' = 1
  /\ tstate' = [l \in Catalog |-> "new"]
  /\ ki' = [l \in Catalog |-> 1]
  /\ translated_data' = [l \in Catalog |-> <<>>]
  /\ calls' = [l \in Catalog |-> <<>>]
  /\ failed' = [l \in Catalog |-> {}]
  /\ exit_status' = -1
  /\ UNCHANGED <<inputFile, outputDir, lock, files, log, ioFailed>>

NextDet ==
  \/ LoadSource
  \/ MakeOutputDir
  \/ ForLang
  \/ WhilePoll
  \/ StartThread
  \/ AppendThread
  \/ JoinThread
  \/ PrintDone
  \/ PrintDoneNl
  \/ Rerun
  \/ \E l \in Catalog : Begin(l)
  \/ \E l \in Catalog : BeginNl(l)
  \/ \E l \in Catalog : ForKey(l)
  \/ \E l \in Catalog : DetReturn(l)
  \/ \E l \in Catalog : DetRaise(l)
  \/ \E l \in Catalog : ErrorNl(l)
  \/ \E l \in Catalog : CopyMetadata(l)
  \/ \E l \in Catalog : Acquire(l)
  \/ \E l \in Catalog : OpenFile(l)
  \/ \E l \in Catalog : DumpEntry(l)
  \/ \E l \in Catalog : CloseFile(l)
  \/ \E l \in Catalog : Created(l)
  \/ \E l \in Catalog : CreatedNl(l)
  \/ \E l \in Catalog : Release(l)
  \/ \E l \in Catalog : ThreadEnd(l)

SpecDet == InitDet /\ [][NextDet]_vars

----------------------------------------------------------------------------
\* Vocabulary of the properties

\* the document that was written for l: the file was dumped whole and closed
Written(l) == files[output_file(l)].complete

\* a text contains "{", one or more word characters, "}"
ContainsPlaceholder(s) ==
  \E i \in 1..Len(s) : \E j \in 1..Len(s) :
    /\ i + 1 < j
    /\ s[i] = "{"
    /\ s[j] = "}"
    /\ \A n \in (i + 1)..(j - 1) : s[n] = "w"

\* keys of the source table that hold a text to translate
TranslatableKeys == {key \in Keys(english_data) : key[1] # "@"}

\* the keys for which thread l has called the backend
Called(l) == {calls[l][i] : i \in 1..Len(calls[l])}

\* key has value in the document doc
Has(doc, key, value) == key \in Keys(doc) /\ Get(doc, key) = value

----------------------------------------------------------------------------
\* C1, as stated: the document written for a locale has exactly the key set
\* of the source table, also when the table has no "@@locale" key.
C1_ExactKeySet ==
  \A l \in Targets : Written(l) => Keys(files[output_file(l)].content) = Keys(english_data)

\* C1, amended: the document written for a locale has every key of the
\* source table, each once, and no other key except "@@locale", which it has
\* also when the source table has none.
C1_KeySetPlusLocaleTag ==
  \A l \in Targets :
    Written(l) =>
      /\ Keys(files[output_file(l)].content) = Keys(english_data) \cup {LocaleKey}
      /\ Len(files[output_file(l)].content) = Cardinality(Keys(files[output_file(l)].content))

C1_Witness ==
  \E l \in Targets : \E m \in Targets :
    /\ l # m
    /\ Written(l)
    /\ Written(m)
    /\ LocaleKey \notin Keys(english_data)
    /\ Len(english_data) > 0

\* C2: a translatable key whose source value contains a placeholder is never
\* sent to the backend by any thread, and its value in every thread's
\* document and in every written document is the source value.
C2_PlaceholderVerbatim ==
  \A l \in Targets : \A key \in TranslatableKeys :
    ContainsPlaceholder(Get(english_data, key)) =>
      /\ key \notin Called(l)
      /\ key \in Keys(translated_data[l]) =>
           Get(translated_data[l], key) = Get(english_data, key)
      /\ Written(l) => Has(files[output_file(l)].content, key, Get(english_data, key))

C2_Witness ==
  \E l \in Targets : \E key \in TranslatableKeys :
    /\ ContainsPlaceholder(Get(english_data, key))
    /\ Get(english_data, key)[1] # "{"
    /\ Get(english_data, key)[Len(Get(english_data, key))] # "}"
    /\ Written(l)

\* C3: in a written document a key whose backend call failed has the source
\* value, and every other translatable key has what it has when nothing
\* fails: the source value with a placeholder, the backend's text without;
\* a thread whose write did not fail ends with its document written.
C3_FailureFallsBack ==
  \A l \in Targets :
    /\ Written(l) =>
         \A key \in TranslatableKeys :
           LET value == Get(english_data, key)
           IN  Has(files[output_file(l)].content, key,
                   IF key \in failed[l] \/ ContainsPlaceholder(value)
                     THEN value
                     ELSE Translate(value, l))
    /\ (tstate[l] = "finished" /\ l \notin ioFailed) => Written(l)

C3_Witness ==
  \E l \in Targets : \E m \in Targets :
    /\ l # m
    /\ Written(l)
    /\ Written(m)
    /\ failed[m] = {}
    /\ Called(m) # {}
    /\ failed[l] # {}
    /\ Called(l) \ failed[l] # {}

\* C4: at most THREADS threads are started and not finished.
C4_PoolBound ==
  Cardinality({l \in Targets : is_alive(l)}) <= THREADS

C4_Witness ==
  /\ Cardinality({l \in Targets : is_alive(l)}) = THREADS
  /\ mpc = "while"
  /\ tstate[languages[li]] = "new"

\* C5: for a source table that has its own "@@locale" entry, the document
\* written for l has "@@locale" equal to l, the metadata and the values with
\* a placeholder as in the source, and the backend's text for the other
\* values when no call failed.
C5_LocaleTagIsTarget ==
  \A l \in Targets :
    (Written(l) /\ LocaleKey \in Keys(english_data) /\ failed[l] = {}) =>
      /\ Has(files[output_file(l)].content, LocaleKey, <<l>>)
      /\ \A key \in Keys(english_data) \ {LocaleKey} :
           LET value == Get(english_data, key)
           IN  Has(files[output_file(l)].content, key,
                   IF key[1] = "@" \/ ContainsPlaceholder(value)
                     THEN value
                     ELSE Translate(value, l))

\* C6: the destination file of a locale is absent or holds the whole
\* document, in every state.
C6_AllOrNothing ==
  \A l \in Targets : files[output_file(l)].exists => files[output_file(l)].complete

\* C7, as stated: writes for different locales proceed independently, only
\* the log update is exclusive: a thread whose document is ready is not kept
\* from its file by another thread that is writing its own file.
C7_WritesIndependent ==
  \A l \in Targets : \A m \in Targets :
    (l # m /\ tstate[l] = "acquire" /\ tstate[m] \in {"open", "dump"}) =>
      ENABLED Acquire(l)

\* C7, amended: the file writes are serialised by the lock together with
\* the "Created" line: at most one thread is between opening and closing
\* its file, and it holds the lock.
C7_WritesSerialised ==
  /\ Cardinality({l \in Targets : tstate[l] \in {"open", "dump"}}) <= 1
  /\ \A l \in Targets : tstate[l] \in {"open", "dump"} => lock = l

C7_Witness ==
  \E l \in Targets : \E m \in Targets :
    /\ l # m
    /\ tstate[l] = "acquire"
    /\ tstate[m] = "dump"
    /\ Len(files[output_file(m)].content) > 0
    /\ ~ files[output_file(m)].complete

\* C8: a thread that is writing a line of the log holds the lock, so does
\* the thread that is adding to the threads list, and no two lines are
\* being written at the same time.
C8_UpdatesUnderLock ==
  /\ \A l \in Targets :
       tstate[l] \in {"log_translating_nl", "log_error_nl", "log_created_nl"} =>
         lock = l
  /\ mpc = "append" => lock = "main"
  /\ Cardinality({l \in Targets :
       tstate[l] \in {"log_translating_nl", "log_error_nl", "log_created_nl"}}) <= 1

\* C9: when the run has ended and the write of one locale raised, the
\* outcome of the run tells so; and the other locales were all started and
\* have their document written unless their own write raised.
C9_FailedLocaleReported ==
  mpc = "end" =>
    /\ (\E l \in Targets : ioFailed = {l}) => exit_status # 0
    /\ \A l \in Targets \ ioFailed : Written(l)

\* C10: when the final line is printed every started thread has finished,
\* and a thread has finished only with its document written or its write
\* failed.
C10_DoneAfterAllFinished ==
  /\ mpc \in {"print_done", "print_done_nl", "end"} =>
       \A i \in 1..Len(threads) : tstate[threads[i]] = "finished"
  /\ \A l \in Targets :
       tstate[l] = "finished" => (Written(l) \/ l \in ioFailed)

C10_Witness ==
  /\ mpc = "print_done_nl"
  /\ Len(threads) = Cardinality(Targets)
  /\ \E l \in Targets : l \in ioFailed /\ files[output_file(l)].exists
  /\ \E l \in Targets : Written(l)

\* C11: under fair scheduling and a backend that always answers, the
\* main thread never stays in its busy wait: the locale it waits to start
\* is eventually started; and once the dispatch loop is entered the run
\* eventually ends with every catalog locale other than "en" started and
\* finished.
C11_BatchCompletes ==
  /\ (mpc = "while") ~> (mpc = "append" /\ tstate[languages[li]] # "new")
  /\ (mpc = "for") ~>
       (mpc = "end" /\ \A l \in Catalog \ {"en"} : tstate[l] = "finished")

C11_Witness ==
  /\ mpc = "end"
  /\ \A l \in Catalog \ {"en"} : tstate[l] = "finished"
  /\ \E l \in Catalog : failed[l] # {}
  /\ \E l \in Catalog : Written(l)

\* C12: with THREADS >= 2, whichever thread h may wait forever for the
\* backend, if the backend answers the calls of the other threads then every
\* other target locale is eventually started and its thread eventually
\* finishes with its document written, or with its write failed.
C12_HangStallsOneSlot ==
  \A h \in Catalog \ {"en"} :
    (\A l \in Catalog \ {h} : WF_vars(BackendAnswer(l))) =>
      ((mpc = "for") ~>
         (\A l \in Catalog \ {"en", h} :
            tstate[l] = "finished" /\ (Written(l) \/ l \in ioFailed)))

C12_Witness ==
  \E h \in Catalog :
    /\ tstate[h] = "translate"
    /\ \A l \in Catalog \ {"en", h} : tstate[l] = "finished" /\ Written(l)
    /\ mpc = "join"

\* C13: the started threads are those of catalog entries other than "en":
\* no thread, backend call or output file exists for "en", and every file
\* that exists is the destination of a started thread of the catalog.
C13_OnlyCatalogTargets ==
  /\ \A i \in 1..Len(threads) : threads[i] \in Catalog /\ threads[i] # "en"
  /\ \A l \in Catalog :
       (tstate[l] # "new" \/ calls[l] # <<>> \/ files[output_file(l)].exists) =>
         l # "en"
  /\ \A p \in DOMAIN files :
       files[p].exists =>
         \E l \in Catalog : l # "en" /\ p = output_file(l) /\ tstate[l] # "new"

C13_Witness ==
  /\ mpc = "end"
  /\ \A l \in Catalog : l # "en" => Written(l)
  /\ tstate["en"] = "new"
  /\ ~ files[output_file("en")].exists

\* C14: when the source table is missing or malformed, or the output
\* directory cannot be created or cannot be written, no thread is ever
\* started and no backend call is ever made.
C14_FatalStartupAborts ==
  (inputFile.status # "ok" \/ outputDir \in {"uncreatable", "unwritable"}) =>
    \A l \in Catalog : tstate[l] = "new" /\ calls[l] = <<>>

\* the document of locale l as one sequential pass over the source table
\* gives it: the locale tag (the table's own when it has one), the texts in
\* the table's order, the metadata in the table's order
ReferenceValue(e, l) ==
  IF ContainsPlaceholder(e.v) \/ BackendFails(e.v, l) THEN e.v ELSE Translate(e.v, l)

ReferenceDocument(l) ==
  LET table == inputFile.data
      IsText(e) == e.k[1] # "@"
      IsMeta(e) == e.k[1] = "@" /\ e.k # LocaleKey
      texts == SelectSeq(table, IsText)
      tag == IF LocaleKey \in Keys(table) THEN Get(table, LocaleKey) ELSE <<l>>
  IN  <<[k |-> LocaleKey, v |-> tag]>>
        \o [i \in 1..Len(texts) |-> [k |-> texts[i].k, v |-> ReferenceValue(texts[i], l)]]
        \o SelectSeq(table, IsMeta)

\* C15: with a backend that answers the same call the same way, the document
\* written for a locale is the same in every run and under every
\* interleaving of the threads: it is the reference document, which depends
\* on the source table and the locale only.
C15_SameDocuments ==
  \A l \in Catalog \ {"en"} :
    Written(l) => files[output_file(l)].content = ReferenceDocument(l)

\* a second run has rewritten the file of l while the file of m is still
\* the one of the run before
C15_Witness ==
  \E l \in Catalog : \E m \in Catalog :
    /\ tstate[l] = "log_created"
    /\ Written(l)
    /\ tstate[m] = "new"
    /\ Written(m)
    /\ failed[l] = {}
    /\ Called(l) # {}
    /\ BackendFails(Goodbye, m)

\* the keys of a dict in its order
KeySeq(d) == [i \in 1..Len(d) |-> d[i].k]

\* the keys of the source table that hold a text, in the table's order
TextKeySeq ==
  LET IsText(e) == e.k[1] # "@" IN KeySeq(SelectSeq(english_data, IsText))

\* the keys of the source table that start with "@", but "@@locale", in the
\* table's order
MetaKeySeq ==
  LET IsMeta(e) == e.k[1] = "@" /\ e.k # LocaleKey
  IN  KeySeq(SelectSeq(english_data, IsMeta))

\* C16, as stated: the key order of the written document is the key order
\* of the source table (for a table that has the same keys as the document).
C16_SourceKeyOrder ==
  \A l \in Catalog \ {"en"} :
    (Written(l) /\ LocaleKey \in Keys(english_data)) =>
      KeySeq(files[output_file(l)].content) = KeySeq(english_data)

\* C16, amended: a thread goes through the texts in the source table's
\* order: its backend calls and the keys of its document follow that order;
\* the written document has "@@locale" first, then the keys of the texts in
\* the table's order, then the other metadata keys in the table's order.
C16_KeyOrder ==
  \A l \in Catalog \ {"en"} :
    /\ \E n \in 0..Len(TextKeySeq) :
         LET IsCalled(key) == ~ ContainsPlaceholder(Get(english_data, key))
         IN  calls[l] = SelectSeq(SubSeq(TextKeySeq, 1, n), IsCalled)
    /\ tstate[l] \in {"for_key", "translate", "log_error_nl"} =>
         KeySeq(translated_data[l]) = <<LocaleKey>> \o SubSeq(TextKeySeq, 1, ki[l] - 1)
    /\ Written(l) =>
         KeySeq(files[output_file(l)].content) = <<LocaleKey>> \o TextKeySeq \o MetaKeySeq

C16_Witness ==
  \E l \in Catalog :
    /\ Written(l)
    /\ Keys(files[output_file(l)].content) = Keys(english_data)
    /\ KeySeq(files[output_file(l)].content) # KeySeq(english_data)
    /\ Len(TextKeySeq) > 1
    /\ Len(MetaKeySeq) > 0

\* C17: the threads are started in the catalog's order: when the thread of
\* a catalog entry has been started, so has the thread of every entry before
\* it other than "en", and the threads list is a prefix of the catalog's
\* entries other than "en", in the catalog's order.
C17_CatalogOrderDispatch ==
  /\ \A i \in 1..Len(languages) : \A j \in 1..Len(languages) :
       (i < j /\ languages[i] # "en" /\ tstate[languages[j]] # "new") =>
         tstate[languages[i]] # "new"
  /\ LET NotSource(c) == c # "en"
     IN  \E n \in 0..Len(languages) :
           threads = SubSeq(SelectSeq(languages, NotSource), 1, n)

\* a later entry's thread has finished while an earlier entry's thread is
\* still waiting for the backend
C17_Witness ==
  \E i \in 1..Len(languages) : \E j \in 1..Len(languages) :
    /\ i < j
    /\ tstate[languages[i]] = "translate"
    /\ tstate[languages[j]] = "finished"
    /\ Len(threads) = 3

\* C18: a thread calls the backend at most once for a key, whether the
\* call returns or raises, and once the "Error" line of a failed call is
\* written the source value is stored for that key.
C18_NoRetry ==
  \A l \in Catalog :
    /\ \A i \in 1..Len(calls[l]) : \A j \in 1..Len(calls[l]) :
         i # j => calls[l][i] # calls[l][j]
    /\ Called(l) \subseteq TranslatableKeys
    /\ failed[l] \subseteq Called(l)
    /\ \A key \in failed[l] :
         \/ tstate[l] = "log_error_nl" /\ key = keys_to_translate[ki[l]]
         \/ Has(translated_data[l], key, Get(english_data, key))

C18_Witness ==
  \E l \in Catalog :
    /\ Written(l)
    /\ Len(calls[l]) = 2
    /\ Cardinality(failed[l]) = 1

\* C19: the lock is held only by a thread that is between line 67 and the
\* end of the with block, never by a thread that is in a backend call or has
\* left the block, by return or by an I/O error; and under fair scheduling
\* no thread waits for the lock forever, whether or not the backend answers.
C19_LockDiscipline ==
  /\ [](\A l \in Catalog :
          lock = l <=>
            tstate[l] \in {"open", "dump", "log_created", "log_created_nl", "release"})
  /\ []<>(\A l \in Catalog : tstate[l] # "acquire")

C19_Witness ==
  \E l \in Catalog : \E m \in Catalog :
    /\ tstate[l] = "acquire"
    /\ lock = m
    /\ tstate[m] = "dump"
    /\ ioFailed # {}
    /\ m \notin ioFailed

\* C20: a catalog entry is started at most once, and exactly once when the
\* dispatch loop is over; distinct catalog entries have distinct destination
\* files; a thread once started is never started again; a destination file
\* is opened at most once: its content is never cut back, and once whole it
\* never changes.
C20_OneThreadOneFile ==
  /\ [](\A i \in 1..Len(threads) : \A j \in 1..Len(threads) :
          i # j => threads[i] # threads[j])
  /\ [](mpc \in {"join", "print_done", "print_done_nl", "end"} =>
          \A l \in Catalog \ {"en"} : \E i \in 1..Len(threads) : threads[i] = l)
  /\ [](\A a \in Catalog : \A b \in Catalog :
          a # b => output_file(a) # output_file(b))
  /\ [][\A l \in Catalog :
          (tstate[l] \notin {"new", "started"}) => tstate'[l] # "started"]_vars
  /\ [][\A p \in DOMAIN files :
          /\ files[p].exists =>
               files'[p].exists /\ Len(files'[p].content) >= Len(files[p].content)
          /\ files[p].complete => files'[p] = files[p]]_vars

C20_Witness ==
  /\ mpc = "end"
  /\ Written("es")
  /\ Written("es-MX")
  /\ files[output_file("es")] # files[output_file("es-MX")]
  /\ output_file("es") # output_file("es-MX")

====
